---- MODULE Spec2Model ----
(***************************************************************************)
(* Model of app.py, the "Universal Wealth Manager" Streamlit script.       *)
(*                                                                         *)
(* The script is re-executed from the top on every user interaction.       *)
(* What survives from one execution to the next is st.session_state        *)
(* (master_df, goals), the values of the keyed widgets (amt_i, yrs_i) and  *)
(* the st.cache_data memo of get_sip_history; every other name of the      *)
(* script (used_funds, pdf_data, total_sip, ...) is a local of one         *)
(* execution.                                                              *)
(*                                                                         *)
(* Spec         tab 1, the goal planner (lines 80-234)                     *)
(* BacktestSpec tab 2, the SIP backtest (lines 45-69, 239-266)             *)
(* SolverSpec   the SIP formula of lines 137-139 as a function of its      *)
(*              three inputs                                               *)
(*                                                                         *)
(* Numbers: Python floats are modelled by exact arithmetic where the       *)
(* values stay small (the backtest, as rationals) and by fixed point with  *)
(* Scale fractional units where they do not (the SIP formula).             *)
(***************************************************************************)
EXTENDS Integers, Sequences, FiniteSets, TLC

VARIABLES
    master_df,      \* st.session_state.master_df: the cleaned, tagged universe
    goals,          \* st.session_state.goals: sequence of [name, amt, yrs]
    widgets,        \* keyed widgets amt_i / yrs_i: value and last default, or NoWidget
    clicked,        \* index of the delete button pressed for this execution, or 0
    pc,             \* "idle" (waiting for the user), "loop" (inside the for loop)
    i,              \* loop index of `for i, goal in enumerate(goals)` (1-based)
    used_funds,     \* local of one execution: codes already recommended
    total_sip,      \* local of one execution
    pdf_data,       \* local of one execution: the per-goal export rows
    plan,           \* what one execution displayed per goal card
    error,          \* the uncaught exception that ended the last execution, or "none"
    nav_source,     \* the external price source: fund code -> response
    now,            \* datetime.now() of the session: [date, midnight]
    sip_cache,      \* st.cache_data memo of get_sip_history: args -> result
    bt_args,        \* arguments of the last "Analyze Returns" click
    bt_result,      \* what get_sip_history returned to that click
    bt_shown,       \* what tab 2 displayed for it
    sv_in,          \* SolverSpec: the inputs [amt, ret, yrs] of the formula
    sv_out          \* SolverSpec: its outcome

planVars == <<master_df, goals, widgets, clicked, pc, i, used_funds, total_sip,
              pdf_data, plan, error>>
btVars == <<nav_source, now, sip_cache, bt_args, bt_result, bt_shown>>
svVars == <<sv_in, sv_out>>
vars == <<planVars, btVars, svVars>>

(***************************************************************************)
(* Strings.  TLC gives Len, SubSeq and \o on strings; str.lower(),         *)
(* str.contains() and str.split() are built from them.                     *)
(***************************************************************************)
LowerOf ==
    [c \in {"A","B","C","D","E","F","G","H","I","J","K","L","M","N","O","P","Q",
            "R","S","T","U","V","W","X","Y","Z"} |->
        CASE c = "A" -> "a" [] c = "B" -> "b" [] c = "C" -> "c" [] c = "D" -> "d"
          [] c = "E" -> "e" [] c = "F" -> "f" [] c = "G" -> "g" [] c = "H" -> "h"
          [] c = "I" -> "i" [] c = "J" -> "j" [] c = "K" -> "k" [] c = "L" -> "l"
          [] c = "M" -> "m" [] c = "N" -> "n" [] c = "O" -> "o" [] c = "P" -> "p"
          [] c = "Q" -> "q" [] c = "R" -> "r" [] c = "S" -> "s" [] c = "T" -> "t"
          [] c = "U" -> "u" [] c = "V" -> "v" [] c = "W" -> "w" [] c = "X" -> "x"
          [] c = "Y" -> "y" [] c = "Z" -> "z"]

CharAt(s, k) == SubSeq(s, k, k)

RECURSIVE LowerFrom(_, _)
LowerFrom(s, k) ==
    IF k > Len(s) THEN ""
    ELSE LET c == CharAt(s, k)
         IN  (IF c \in DOMAIN LowerOf THEN LowerOf[c] ELSE c) \o LowerFrom(s, k + 1)

\* `kw in s` / str.contains(kw) for a literal kw
Contains(s, kw) ==
    \E k \in 1..(Len(s) - Len(kw) + 1) : SubSeq(s, k, k + Len(kw) - 1) = kw

\* str.contains('a|b|c'): the regular expression is an alternation of literals
ContainsAny(s, kws) == \E kw \in kws : Contains(s, kw)

\* the characters str.split() splits on
IsSpace(c) == c \in {" ", "\t", "\n", "\r"}

RECURSIVE SkipSpaces(_, _)
SkipSpaces(s, k) ==
    IF k <= Len(s) /\ IsSpace(CharAt(s, k)) THEN SkipSpaces(s, k + 1) ELSE k

RECURSIVE TokenEnd(_, _)
TokenEnd(s, k) ==
    IF k <= Len(s) /\ ~IsSpace(CharAt(s, k)) THEN TokenEnd(s, k + 1) ELSE k

\* name.split()[0]: the first whitespace-delimited token
FirstToken(s) ==
    LET b == SkipSpaces(s, 1) IN SubSeq(s, b, TokenEnd(s, b) - 1)

(***************************************************************************)
(* universe_data.csv and get_cleaned_data (lines 14-29).                   *)
(***************************************************************************)
Fund(code, name, cat, grade, sd, fs, ar) ==
    [Code |-> code, Name |-> name, Category |-> cat, Risk_Grade |-> grade,
     Std_Dev |-> sd, Freq_Score |-> fs, Avg_Return |-> ar]

\* The rows of the CSV the model draws its universes from.
RawPool == <<
    Fund(101, "HDFC Liquid Fund",         "Safe_Debt", "Low",      1, 2,  6),
    Fund(102, "HDFC Overnight Fund",      "Safe_Debt", "Low",      1, 4,  6),
    Fund(103, "ICICI Short Term Debt",    "Safe_Debt", "Low",      2, 3,  7),
    Fund(104, "Axis Equity Saver",        "Hybrid",    "Moderate", 2, 3,  9),
    Fund(105, "ICICI Bluechip Fund",      "Equity",    "Moderate", 12, 5, 14),
    Fund(106, "Axis Large Cap Fund",      "Equity",    "High",     14, 4, 15),
    Fund(107, "SBI Balanced Hybrid Fund", "Hybrid",    "Moderate", 2, 4, 11),
    Fund(108, "SBI Large & Midcap",       "Equity",    "Moderate", 15, 4, 16),
    Fund(109, "Nippon Tech Fund",         "Equity",    "High",     20, 5, 20),
    Fund(110, "Kotak Equity Income Fund", "Equity",    "Moderate", 9, 5, 12),
    Fund(111, "HDFC Top 100 Dividend",    "Equity",    "Moderate", 12, 5, 13),
    Fund(112, "Reliance Large Cap",       "Equity",    "Moderate", 13, 5, 15) >>

\* str.lower(); the lower-cased names of RawPool are computed once and looked up
LowerOfName == [nm \in {RawPool[k].Name : k \in 1..Len(RawPool)} |-> LowerFrom(nm, 1)]

Lower(s) == IF s \in DOMAIN LowerOfName THEN LowerOfName[s] ELSE LowerFrom(s, 1)

zombies == {"reliance", "fixed tenure", "dual advantage", "capital protection",
            "interval", "quarterly", "series"}

risky_keywords == {"sector", "thematic", "international", "global", "gold",
                   "commodity", "psu", "infra", "tech"}

is_safe(row) ==
    IF row.Category = "Equity"
    THEN ~ContainsAny(Lower(row.Name), risky_keywords)
    ELSE TRUE

KeepRow(row) ==
    /\ ~ContainsAny(Lower(row.Name), {"bonus", "dividend"})
    /\ ~ContainsAny(Lower(row.Name), zombies)

Tag(row) ==
    [Code |-> row.Code, Name |-> row.Name, Category |-> row.Category,
     Risk_Grade |-> row.Risk_Grade, Std_Dev |-> row.Std_Dev,
     Freq_Score |-> row.Freq_Score, Avg_Return |-> row.Avg_Return,
     Is_Safe |-> is_safe(row)]

\* get_cleaned_data on a CSV that exists and parses: drop, drop, tag
get_cleaned_data(csv) ==
    LET kept == SelectSeq(csv, KeepRow)
    IN  [k \in 1..Len(kept) |-> Tag(kept[k])]

(***************************************************************************)
(* Bounds of the model.                                                    *)
(***************************************************************************)
MaxGoals == 2

\* The universes the model starts from: the CSV holds these rows of RawPool.
UniverseRows == { 1..12, {1, 2, 3}, {1, 4, 7, 8, 10} }

\* Values the user gives the goal widgets (amount in lakhs, horizon in years).
AmtChoices == {10, 50}
YrsChoices == {3, 7, 8}
NameChoices == {"Dream Home"}

Range(s) == {s[k] : k \in 1..Len(s)}

\* The CSV holding the rows of RawPool at the positions in `rows`, in file order.
CsvRows(rows) ==
    LET at == SelectSeq([k \in 1..Len(RawPool) |-> k], LAMBDA k : k \in rows)
    IN  [k \in 1..Len(at) |-> RawPool[at[k]]]

(***************************************************************************)
(* Strategy selection (lines 113-121).                                     *)
(***************************************************************************)
Strat(yrs) ==
    IF yrs <= 3 THEN "Conservative (Safe Debt)"
    ELSE IF yrs <= 7 THEN "Balanced (Hybrid/Large Cap)"
    ELSE "Aggressive (Wealth Equity)"

Ret(yrs) == IF yrs <= 3 THEN 7 ELSE IF yrs <= 7 THEN 10 ELSE 13

\* The boolean mask of each branch, on one row of df.
InFilter(yrs, f) ==
    IF yrs <= 3 THEN
        \/ f.Category = "Safe_Debt"
        \/ (f.Std_Dev < 3 /\ ~Contains(Lower(f.Name), "equity"))
    ELSE IF yrs <= 7 THEN
        /\ f.Is_Safe
        /\ f.Risk_Grade # "High"
        /\ ContainsAny(Lower(f.Name), {"hybrid", "large", "balanced", "bluechip"})
    ELSE
        /\ f.Is_Safe
        /\ f.Category = "Equity"
        /\ ~ContainsAny(Lower(f.Name), {"debt", "bond", "income"})

\* sort_values of each branch as a two-part key, smaller first:
\* Std_Dev ascending; Freq_Score descending; (Freq_Score, Avg_Return) descending.
SortKey(yrs, f) ==
    IF yrs <= 3 THEN <<f.Std_Dev, 0>>
    ELSE IF yrs <= 7 THEN <<0 - f.Freq_Score, 0>>
    ELSE <<0 - f.Freq_Score, 0 - f.Avg_Return>>

KeyLess(a, b) == a[1] < b[1] \/ (a[1] = b[1] /\ a[2] < b[2])

\* One insertion of row f into the sorted prefix s, after the rows whose key is
\* not larger (pandas keeps the order of equal keys on frames this small).
RECURSIVE InsertRow(_, _, _)
InsertRow(yrs, s, f) ==
    IF s = << >> THEN <<f>>
    ELSE IF KeyLess(SortKey(yrs, f), SortKey(yrs, s[Len(s)]))
         THEN Append(InsertRow(yrs, SubSeq(s, 1, Len(s) - 1), f), s[Len(s)])
         ELSE Append(s, f)

RECURSIVE SortRows(_, _, _)
SortRows(yrs, rows, k) ==
    IF k = 0 THEN << >>
    ELSE InsertRow(yrs, SortRows(yrs, rows, k - 1), rows[k])

\* candidates = df[mask].sort_values(...)
Candidates(df, yrs) ==
    LET rows == SelectSeq(df, LAMBDA f : InFilter(yrs, f))
    IN  SortRows(yrs, rows, Len(rows))

(***************************************************************************)
(* The recommended-funds loop (lines 180-188).                             *)
(***************************************************************************)
\* Line 185 without its test on used_funds.
AcceptAnyCode(fund, used, amcs) == FirstToken(fund.Name) \notin Range(amcs)

\* Line 185 without its test on curr_amcs.
AcceptAnySponsor(fund, used, amcs) == fund.Code \notin Range(used)

\* the `if` of line 185
Accept(fund, used, amcs) ==
    /\ fund.Code \notin Range(used)
    /\ FirstToken(fund.Name) \notin Range(amcs)

\* The for loop from candidate k on: [recs, used, amcs] at its exit.
RECURSIVE SelectLoop(_, _, _, _, _)
SelectLoop(cands, k, recs, used, amcs) ==
    IF k > Len(cands) \/ Len(recs) >= 2
    THEN [recs |-> recs, used |-> used, amcs |-> amcs]
    ELSE IF Accept(cands[k], used, amcs)
         THEN SelectLoop(cands, k + 1, Append(recs, cands[k]),
                         Append(used, cands[k].Code),
                         Append(amcs, FirstToken(cands[k].Name)))
         ELSE SelectLoop(cands, k + 1, recs, used, amcs)

(***************************************************************************)
(* The SIP formula (lines 137-139) in fixed point: a float x is the        *)
(* integer x * Scale, rounded down.                                        *)
(***************************************************************************)
Scale == 10000

\* x * (1 + r) with r = ret / 1200
Month(ret, g) == (g * (1200 + ret)) \div 1200

Year(ret, g) ==
    Month(ret, Month(ret, Month(ret, Month(ret, Month(ret, Month(ret,
    Month(ret, Month(ret, Month(ret, Month(ret, Month(ret, Month(ret, g))))))))))))

\* (1 + r) ** n, one factor at a time (twelve at a time while n allows)
RECURSIVE Growth(_, _)
Growth(ret, n) ==
    IF n = 0 THEN Scale
    ELSE IF n >= 12
         THEN LET g == Growth(ret, n - 12) IN IF g = 0 THEN 0 ELSE Year(ret, g)
         ELSE LET g == Growth(ret, n - 1) IN IF g = 0 THEN 0 ELSE Month(ret, g)

\* sip = target * r / ((1+r)**n - 1), target = new_amt * 100000, in rupees;
\* Python raises ZeroDivisionError on a float division by zero.
Sip(new_amt, ret, n) ==
    LET denom == Growth(ret, n) - Scale
    IN  IF denom = 0 THEN [raised |-> TRUE, value |-> 0]
        ELSE [raised |-> FALSE,
              value |-> (new_amt * ret * 250 * Scale) \div (3 * denom)]

\* format_inr (lines 39-42): the unit chosen and the number printed before it,
\* in hundredths of the unit (Cr, L) or in whole rupees.
format_inr(number) ==
    IF number >= 10000000 THEN [unit |-> "Cr", shown |-> (number + 50000) \div 100000]
    ELSE IF number >= 100000 THEN [unit |-> "L", shown |-> (number + 500) \div 1000]
    ELSE [unit |-> "", shown |-> number]

(***************************************************************************)
(* Keyed widgets.  A keyed widget returns the value the browser holds for  *)
(* its key; the first time a key is rendered it returns the `value`        *)
(* argument.  When the `value` argument differs from the one of the last   *)
(* rendering, Streamlit releases differ: the widget either keeps the       *)
(* value held for the key or starts again from the new argument.           *)
(***************************************************************************)
NoWidget == [set |-> FALSE]

Widget(amt, yrs, damt, dyrs) ==
    [set |-> TRUE, amt |-> amt, yrs |-> yrs, damt |-> damt, dyrs |-> dyrs]

\* st.number_input("Target", 1, 5000, int(current_amt), key=f"amt_{i}")
RenderAmt(w, value) ==
    IF ~w.set THEN {value}
    ELSE IF w.damt = value THEN {w.amt}
    ELSE {w.amt, value}

\* st.slider("Duration (Years)", 1, 30, int(current_yrs), key=f"yrs_{i}")
RenderYrs(w, value) ==
    IF ~w.set THEN {value}
    ELSE IF w.dyrs = value THEN {w.yrs}
    ELSE {w.yrs, value}

\* At the end of an execution the state of widgets it did not render is dropped.
DropFrom(ws, first) ==
    [k \in DOMAIN ws |-> IF k >= first THEN NoWidget ELSE ws[k]]

RemoveAt(s, k) == SubSeq(s, 1, k - 1) \o SubSeq(s, k + 1, Len(s))

(***************************************************************************)
(* Tab 1: one execution of the script (lines 80-234).                      *)
(***************************************************************************)
\* An execution that starts with the used_funds the last one left.
BeginRunKeepUsed ==
    /\ pc' = "loop"
    /\ i' = 1
    /\ total_sip' = 0
    /\ used_funds' = used_funds
    /\ pdf_data' = << >>
    /\ plan' = << >>
    /\ error' = "none"

\* Every execution starts from the top: lines 94-96.
BeginRun ==
    /\ pc' = "loop"
    /\ i' = 1
    /\ total_sip' = 0
    /\ used_funds' = << >>
    /\ pdf_data' = << >>
    /\ plan' = << >>
    /\ error' = "none"

\* "Add to Dashboard" (lines 88-90): append, then st.rerun().
AddGoal ==
    /\ pc = "idle"
    /\ Len(goals) < MaxGoals
    /\ \E g_name \in NameChoices, g_amt \in AmtChoices, g_yrs \in YrsChoices :
          goals' = Append(goals, [name |-> g_name, amt |-> g_amt * 100000,
                                  yrs |-> g_yrs])
    /\ clicked' = 0
    /\ BeginRun
    /\ UNCHANGED <<master_df, widgets>>
    /\ UNCHANGED <<btVars, svVars>>

\* The user moves the duration slider of a card that is on the page.
EditYrs ==
    /\ pc = "idle"
    /\ \E k \in 1..Len(goals), v \in YrsChoices :
          /\ widgets[k].set
          /\ v # widgets[k].yrs
          /\ widgets' = [widgets EXCEPT ![k].yrs = v]
    /\ clicked' = 0
    /\ BeginRun
    /\ UNCHANGED <<master_df, goals>>
    /\ UNCHANGED <<btVars, svVars>>

\* The user changes the target amount of a card that is on the page.
EditAmt ==
    /\ pc = "idle"
    /\ \E k \in 1..Len(goals), v \in AmtChoices :
          /\ widgets[k].set
          /\ v # widgets[k].amt
          /\ widgets' = [widgets EXCEPT ![k].amt = v]
    /\ clicked' = 0
    /\ BeginRun
    /\ UNCHANGED <<master_df, goals>>
    /\ UNCHANGED <<btVars, svVars>>

\* The user presses the delete button of a card that is on the page.
ClickDelete ==
    /\ pc = "idle"
    /\ \E k \in 1..Len(goals) :
          /\ widgets[k].set
          /\ clicked' = k
    /\ BeginRun
    /\ UNCHANGED <<master_df, goals, widgets>>
    /\ UNCHANGED <<btVars, svVars>>

\* Any other interaction (a widget of tab 2, the PDF button) reruns the script.
Rerun ==
    /\ pc = "idle"
    /\ clicked' = 0
    /\ BeginRun
    /\ UNCHANGED <<master_df, goals, widgets>>
    /\ UNCHANGED <<btVars, svVars>>

\* Lines 105-107: the pressed delete button pops the goal and reruns.
DeleteGoal ==
    /\ pc = "loop"
    /\ i <= Len(goals)
    /\ clicked = i
    /\ goals' = RemoveAt(goals, i)
    /\ clicked' = 0
    /\ BeginRun
    /\ UNCHANGED <<master_df, widgets>>
    /\ UNCHANGED <<btVars, svVars>>

\* What one card showed.
Card(goal, current_yrs, new_amt, new_yrs, sip, sel) ==
    [name |-> goal.name,
     current_yrs |-> current_yrs,
     strat |-> Strat(current_yrs),
     ret |-> Ret(current_yrs),
     new_amt |-> new_amt,
     new_yrs |-> new_yrs,
     n |-> new_yrs * 12,
     sip |-> sip,
     total_invested |-> sip * (new_yrs * 12),
     est_gain |-> new_amt * 100000 - sip * (new_yrs * 12),
     recs |-> sel.recs]

\* Lines 201-205.
PdfRow(card) ==
    [goal |-> card.name,
     sip |-> format_inr(card.sip),
     invested |-> format_inr(card.total_invested),
     gain |-> format_inr(card.est_gain),
     funds |-> [k \in 1..Len(card.recs) |-> card.recs[k].Name]]

\* One iteration of the for loop (lines 98-205) for a goal whose delete button
\* is not pressed.  With no fund selected recs_df has no column 'Name' and
\* line 204 raises KeyError, which ends the execution.
GoalStep ==
    /\ pc = "loop"
    /\ i <= Len(goals)
    /\ clicked # i
    /\ LET goal == goals[i]
           current_amt == goal.amt \div 100000
           current_yrs == goal.yrs
           candidates == Candidates(master_df, current_yrs)
           sel == SelectLoop(candidates, 1, << >>, used_funds, << >>)
       IN  \E new_amt \in RenderAmt(widgets[i], current_amt),
              new_yrs \in RenderYrs(widgets[i], current_yrs) :
             LET solved == Sip(new_amt, Ret(current_yrs), new_yrs * 12)
                 sip == solved.value
                 card == Card(goal, current_yrs, new_amt, new_yrs, sip, sel)
                 shown == [widgets EXCEPT ![i] = Widget(new_amt, new_yrs,
                                                        current_amt, current_yrs)]
             IN  /\ goals' = [goals EXCEPT ![i].amt = new_amt * 100000,
                                           ![i].yrs = new_yrs]
                 /\ IF solved.raised
                    THEN /\ error' = "ZeroDivisionError"
                         /\ pc' = "idle"
                         /\ widgets' = DropFrom(shown, i + 1)
                         /\ UNCHANGED <<i, total_sip, used_funds, plan, pdf_data>>
                    ELSE /\ total_sip' = total_sip + sip
                         /\ used_funds' = sel.used
                         /\ plan' = Append(plan, card)
                         /\ IF sel.recs = << >>
                            THEN /\ error' = "KeyError"
                                 /\ pc' = "idle"
                                 /\ widgets' = DropFrom(shown, i + 1)
                                 /\ UNCHANGED <<i, pdf_data>>
                            ELSE /\ pdf_data' = Append(pdf_data, PdfRow(card))
                                 /\ i' = i + 1
                                 /\ widgets' = shown
                                 /\ UNCHANGED <<pc, error>>
    /\ UNCHANGED <<master_df, clicked>>
    /\ UNCHANGED <<btVars, svVars>>

\* The loop is over (or line 92 found no goal): footer, then the page is final.
FinishRun ==
    /\ pc = "loop"
    /\ i > Len(goals)
    /\ pc' = "idle"
    /\ clicked' = 0
    /\ widgets' = DropFrom(widgets, Len(goals) + 1)
    /\ UNCHANGED <<master_df, goals, i, used_funds, total_sip, pdf_data, plan, error>>
    /\ UNCHANGED <<btVars, svVars>>

InitPlan ==
    /\ \E rows \in UniverseRows :
          master_df = get_cleaned_data(CsvRows(rows))
    /\ goals = << >>
    /\ widgets = [k \in 1..MaxGoals |-> NoWidget]
    /\ clicked = 0
    /\ pc = "idle"
    /\ i = 1
    /\ used_funds = << >>
    /\ total_sip = 0
    /\ pdf_data = << >>
    /\ plan = << >>
    /\ error = "none"

Init ==
    /\ InitPlan
    /\ nav_source = << >> /\ now = << >> /\ sip_cache = << >>
    /\ bt_args = << >> /\ bt_result = << >> /\ bt_shown = ""
    /\ sv_in = << >> /\ sv_out = [done |-> FALSE]

Next ==
    \/ AddGoal
    \/ EditYrs
    \/ EditAmt
    \/ ClickDelete
    \/ Rerun
    \/ DeleteGoal
    \/ GoalStep
    \/ FinishRun

Spec == Init /\ [][Next]_vars

(***************************************************************************)
(* Properties of tab 1.                                                    *)
(***************************************************************************)
Codes(recs) == {recs[k].Code : k \in 1..Len(recs)}

CodeSeq(recs) == [k \in 1..Len(recs) |-> recs[k].Code]

\* used_funds as the cards before card a left it
RECURSIVE UsedBefore(_)
UsedBefore(a) ==
    IF a <= 1 THEN << >> ELSE UsedBefore(a - 1) \o CodeSeq(plan[a - 1].recs)

\* C1: in one execution no fund code is recommended for two different goals.
C1_GlobalUniqueness ==
    \A a, b \in 1..Len(plan) :
        a # b => Codes(plan[a].recs) \cap Codes(plan[b].recs) = {}

\* C1 witness: the second card got a fund although its best-ranked candidate
\* was refused because the first card had taken it.
C1_Witness ==
    /\ Len(plan) = 2
    /\ plan[2].recs # << >>
    /\ LET cands == Candidates(master_df, plan[2].current_yrs)
       IN  cands[1].Code \in Codes(plan[1].recs)

\* C2: a card never holds two funds with the same first name token, and never
\* more than 2 funds.
C2_SponsorDiverse ==
    \A a \in 1..Len(plan) :
        /\ Len(plan[a].recs) <= 2
        /\ \A k, m \in 1..Len(plan[a].recs) :
              k # m => FirstToken(plan[a].recs[k].Name) # FirstToken(plan[a].recs[m].Name)

\* C2 witness: a card with 2 funds that passed over an unused candidate of the
\* sponsor it had already taken.
C2_Witness ==
    \E a \in 1..Len(plan) :
        /\ Len(plan[a].recs) = 2
        /\ LET cands == Candidates(master_df, plan[a].current_yrs)
           IN  \E k, m \in 1..Len(cands) :
                  /\ k < m
                  /\ cands[m] = plan[a].recs[2]
                  /\ cands[k].Code \notin Range(used_funds)
                  /\ FirstToken(cands[k].Name) = FirstToken(plan[a].recs[1].Name)

\* C3: used_funds holds nothing but the codes this execution has selected so
\* far (so it is empty when an execution starts), and each card's funds are
\* those the loop selects from the card's candidates starting from the codes of
\* the cards before it in this execution.
C3_UsageScopedToRun ==
    /\ used_funds = UsedBefore(Len(plan) + 1)
    /\ (pc = "loop" /\ i = 1 => used_funds = << >>)
    /\ \A a \in 1..Len(plan) :
          plan[a].recs =
              SelectLoop(Candidates(master_df, plan[a].current_yrs), 1, << >>,
                         UsedBefore(a), << >>).recs

\* C3 witness: an execution started by a delete click on card 2 (so an earlier
\* execution had selected funds for cards 1 and 2) has redone card 1 and
\* selected funds for it again.
C3_Witness ==
    /\ pc = "loop"
    /\ i = 2
    /\ clicked = 2
    /\ Len(plan) = 1
    /\ Len(plan[1].recs) = 2
    /\ used_funds = CodeSeq(plan[1].recs)

\* C4: every card's strategy label and assumed return are those of the bucket
\* of the horizon the SIP formula used (n = horizon * 12), also in the
\* execution that follows a move of the duration slider.
C4_StrategyOfSolverHorizon ==
    \A a \in 1..Len(plan) :
        LET horizon == plan[a].n \div 12
        IN  /\ plan[a].n = horizon * 12
            /\ horizon = goals[a].yrs
            /\ plan[a].strat =
                  (IF horizon <= 3 THEN "Conservative (Safe Debt)"
                   ELSE IF horizon <= 7 THEN "Balanced (Hybrid/Large Cap)"
                   ELSE "Aggressive (Wealth Equity)")
            /\ plan[a].ret =
                  (IF horizon <= 3 THEN 7 ELSE IF horizon <= 7 THEN 10 ELSE 13)

\* The filters as the claim C5 words them.
ClaimedFilter(horizon, f) ==
    LET name == Lower(f.Name)
    IN  IF horizon <= 3 THEN
            f.Category = "Safe_Debt" \/ (f.Std_Dev < 3 /\ ~Contains(name, "equity"))
        ELSE IF horizon >= 8 THEN
            /\ f.Is_Safe
            /\ f.Category = "Equity"
            /\ ~Contains(name, "debt") /\ ~Contains(name, "bond")
            /\ ~Contains(name, "income")
        ELSE
            /\ f.Is_Safe
            /\ f.Risk_Grade # "High"
            /\ (Contains(name, "hybrid") \/ Contains(name, "large")
                  \/ Contains(name, "balanced") \/ Contains(name, "bluechip"))

\* C5: every fund on a card passes the filter of the bucket of the goal's horizon.
C5_SelectedPassGoalFilter ==
    \A a \in 1..Len(plan) :
        \A k \in 1..Len(plan[a].recs) :
            ClaimedFilter(goals[a].yrs, plan[a].recs[k])

\* The same with the horizon line 111 read (before the slider's value replaced it).
SelectedPassFilterRead ==
    \A a \in 1..Len(plan) :
        \A k \in 1..Len(plan[a].recs) :
            ClaimedFilter(plan[a].current_yrs, plan[a].recs[k])

\* C9: every goal's summary carries an estimated tax: 12.5% of the gains above
\* 125000, else 0, with gains = target - contribution * n.
C9_EstimatedTax ==
    /\ \A a \in 1..Len(plan) :
          /\ "estimated_tax" \in DOMAIN plan[a]
          /\ LET gains == plan[a].new_amt * 100000 - plan[a].sip * plan[a].n
             IN  plan[a].estimated_tax =
                    (IF gains > 125000 THEN ((gains - 125000) * 125) \div 1000 ELSE 0)
    /\ \A a \in 1..Len(pdf_data) : "estimated_tax" \in DOMAIN pdf_data[a]

\* The greedy scan of C10 for card a, stated on its outcome: the funds are
\* candidates in rank order; a candidate is taken exactly if fewer than 2
\* better-ranked ones were taken, its code was unused and no better-ranked taken
\* fund has its sponsor token.
GreedyCard(a) ==
    LET cands == Candidates(master_df, plan[a].current_yrs)
        recs == plan[a].recs
        before == Range(UsedBefore(a))
        Taken(k) == cands[k] \in Range(recs)
        TakenBefore(k) == {m \in 1..(k - 1) : Taken(m)}
    IN  /\ Range(recs) \subseteq Range(cands)
        /\ \A k, m \in 1..Len(recs) :
              k < m => \E x, y \in 1..Len(cands) :
                          x < y /\ cands[x] = recs[k] /\ cands[y] = recs[m]
        /\ \A k \in 1..Len(cands) :
              Taken(k) <=>
                 /\ Cardinality(TakenBefore(k)) < 2
                 /\ cands[k].Code \notin before
                 /\ \A m \in TakenBefore(k) :
                       FirstToken(cands[m].Name) # FirstToken(cands[k].Name)
        /\ Len(recs) < 2 =>
              \A k \in 1..Len(cands) :
                 ~Taken(k) =>
                    \/ cands[k].Code \in before
                    \/ \E m \in 1..Len(recs) :
                          FirstToken(recs[m].Name) = FirstToken(cands[k].Name)

GreedyHolds ==
    /\ \A a \in 1..Len(plan) : GreedyCard(a)
    /\ Range(used_funds) = UNION {Codes(plan[a].recs) : a \in 1..Len(plan)}

\* C10: the scan is greedy in rank order, the usage set is the set of codes
\* selected so far, and a card that ends with fewer than 2 funds, also with
\* none, ends without error.
C10_GreedyNoError ==
    /\ GreedyHolds
    /\ \A a \in 1..Len(plan) : Len(plan[a].recs) < 2 => error = "none"

(***************************************************************************)
(* Floats of the backtest.  A finite float is the exact rational n/d in    *)
(* lowest terms; NaN and the infinities are values of their own.           *)
(***************************************************************************)
RECURSIVE Gcd(_, _)
Gcd(a, b) == IF b = 0 THEN a ELSE Gcd(b, a % b)

Abs(x) == IF x < 0 THEN 0 - x ELSE x

\* the float n/d, d > 0
Num(n, d) ==
    LET g == Gcd(Abs(n), d)
    IN  [k |-> "num", n |-> n \div g, d |-> d \div g]

NaN == [k |-> "nan"]
Inf(sign) == [k |-> "inf", sign |-> sign]

Sign(x) == IF x.k = "inf" THEN x.sign ELSE IF x.n < 0 THEN 0 - 1 ELSE IF x.n = 0 THEN 0 ELSE 1

FAdd(x, y) ==
    IF x.k = "nan" \/ y.k = "nan" THEN NaN
    ELSE IF x.k = "inf" /\ y.k = "inf" THEN (IF x.sign = y.sign THEN x ELSE NaN)
    ELSE IF x.k = "inf" THEN x
    ELSE IF y.k = "inf" THEN y
    ELSE Num(x.n * y.d + y.n * x.d, x.d * y.d)

FNeg(x) ==
    IF x.k = "nan" THEN NaN
    ELSE IF x.k = "inf" THEN Inf(0 - x.sign)
    ELSE Num(0 - x.n, x.d)

FSub(x, y) == FAdd(x, FNeg(y))

FMul(x, y) ==
    IF x.k = "nan" \/ y.k = "nan" THEN NaN
    ELSE IF x.k = "inf" \/ y.k = "inf"
         THEN (IF Sign(x) * Sign(y) = 0 THEN NaN ELSE Inf(Sign(x) * Sign(y)))
    ELSE Num(x.n * y.n, x.d * y.d)

\* numpy's float64 division: a zero divisor gives nan or an infinity (and a warning)
FDivNumpy(x, y) ==
    IF x.k = "nan" \/ y.k = "nan" THEN NaN
    ELSE IF x.k = "inf" /\ y.k = "inf" THEN NaN
    ELSE IF x.k = "inf" THEN Inf(IF Sign(y) < 0 THEN 0 - x.sign ELSE x.sign)
    ELSE IF y.k = "inf" THEN Num(0, 1)
    ELSE IF y.n = 0 THEN (IF x.n = 0 THEN NaN ELSE Inf(Sign(x)))
    ELSE Num(x.n * y.d * Sign(y), x.d * Abs(y.n))

IsZero(x) == x.k = "num" /\ x.n = 0

(***************************************************************************)
(* Dates: 'dd-mm-YYYY' as [d, m, y]; a timestamp is the number of days     *)
(* since 01-01-2000 (years 2000..2099).                                    *)
(***************************************************************************)
Date(d, m, y) == [d |-> d, m |-> m, y |-> y]

IsLeap(y) == y % 4 = 0

DaysInMonth(m, y) ==
    IF m = 2 THEN (IF IsLeap(y) THEN 29 ELSE 28)
    ELSE IF m \in {4, 6, 9, 11} THEN 30 ELSE 31

RECURSIVE DaysBeforeMonth(_, _)
DaysBeforeMonth(m, y) ==
    IF m = 1 THEN 0 ELSE DaysBeforeMonth(m - 1, y) + DaysInMonth(m - 1, y)

DaysBeforeYear(y) == (y - 2000) * 365 + ((y - 2000) + 3) \div 4

\* pd.to_datetime(date, format='%d-%m-%Y')
Ordinal(dt) == DaysBeforeYear(dt.y) + DaysBeforeMonth(dt.m, dt.y) + (dt.d - 1)

\* the bin of resample('MS'): the calendar month
MonthBin(dt) == <<dt.y, dt.m>>

(***************************************************************************)
(* The price source (mftool) and get_sip_history (lines 45-69).            *)
(***************************************************************************)
MaxObs == 3

\* Dates and nav strings the source's histories are made of.
DatePool == << Date(1, 10, 2023), Date(3, 11, 2025), Date(1, 9, 2026),
               Date(15, 9, 2026), Date(2, 11, 2026) >>

NavStrings == {"100.0", "125.0", "0.0", "nan"}

\* pd.to_numeric on one nav string; anything else raises ValueError
Parses(str) == str \in {"100.0", "125.0", "0.0", "nan"}

ToNumeric(str) ==
    CASE str = "100.0" -> Num(100, 1)
      [] str = "125.0" -> Num(125, 1)
      [] str = "0.0" -> Num(0, 1)
      [] str = "nan" -> NaN

Max(S) == CHOOSE x \in S : \A y \in S : y <= x

\* The history holding the dates of DatePool at the positions S with the nav
\* strings p, latest first (the order the source sends).
RECURSIVE History(_, _)
History(S, p) ==
    IF S = {} THEN << >>
    ELSE LET k == Max(S)
         IN  <<[date |-> DatePool[k], nav |-> p[k]]>> \o History(S \ {k}, p)

Histories ==
    UNION { {History(S, p) : p \in [S -> NavStrings]} :
            S \in {T \in SUBSET (1..Len(DatePool)) : Cardinality(T) <= MaxObs} }

\* A flat year: the first of each month from 12-2025 to 11-2026 at 100.
Flat12 ==
    [k \in 1..12 |->
        [date |-> IF k = 12 THEN Date(1, 12, 2025) ELSE Date(1, 12 - k, 2026),
         nav |-> "100.0"]]

\* A history with a nav that does not parse.
Unparsable == <<[date |-> Date(2, 11, 2026), nav |-> "N.A."]>>

\* What the source answers for a scheme: a history, nothing, or an exception.
Answers ==
    {[kind |-> "data", data |-> h] : h \in Histories \cup {Flat12, Unparsable}}
        \cup {[kind |-> "nothing"], [kind |-> "raises"]}

None == [kind |-> "None"]

\* nav_df after lines 50-53: parsed and sorted by date (dates are distinct)
RECURSIVE InsertObs(_, _)
InsertObs(s, o) ==
    IF s = << >> THEN <<o>>
    ELSE IF o.t < s[Len(s)].t
         THEN Append(InsertObs(SubSeq(s, 1, Len(s) - 1), o), s[Len(s)])
         ELSE Append(s, o)

RECURSIVE SortObs(_, _)
SortObs(rows, k) ==
    IF k = 0 THEN << >> ELSE InsertObs(SortObs(rows, k - 1), rows[k])

ParsedFrame(data) ==
    SortObs([k \in 1..Len(data) |->
                [date |-> data[k].date, t |-> Ordinal(data[k].date),
                 nav |-> ToNumeric(data[k].nav)]], Len(data))

\* line 55-56: nav_df[nav_df['date'] >= now - timedelta(days=years*365)];
\* the dates are midnights, `now` has a time of day unless it is midnight itself
InWindow(o, at, years) ==
    IF at.midnight THEN o.t >= Ordinal(at.date) - years * 365
    ELSE o.t > Ordinal(at.date) - years * 365

\* A resampling that keeps every observation instead of one per month.
RECURSIVE EveryObservation(_, _, _)
EveryObservation(frame, k, seen) ==
    IF k > Len(frame) THEN << >>
    ELSE IF frame[k].nav.k = "nan"
         THEN EveryObservation(frame, k + 1, seen)
         ELSE <<frame[k].nav>> \o EveryObservation(frame, k + 1, seen)

\* line 59: resample('MS').first().dropna(): per calendar month, in order, the
\* first nav that is not NaN; months without one are dropped
RECURSIVE MonthlyFirst(_, _, _)
MonthlyFirst(frame, k, seen) ==
    IF k > Len(frame) THEN << >>
    ELSE IF frame[k].nav.k = "nan" \/ MonthBin(frame[k].date) \in seen
         THEN MonthlyFirst(frame, k + 1, seen)
         ELSE <<frame[k].nav>> \o
              MonthlyFirst(frame, k + 1, seen \cup {MonthBin(frame[k].date)})

\* lines 61-64: the purchase loop; monthly_amt / nav is a Python float
\* division, which raises ZeroDivisionError on nav = 0.0
RECURSIVE Purchases(_, _, _, _, _)
Purchases(monthly, k, monthly_amt, total_units, invested) ==
    IF k > Len(monthly)
    THEN [raised |-> FALSE, total_units |-> total_units, invested |-> invested]
    ELSE IF IsZero(monthly[k])
         THEN [raised |-> TRUE]
         ELSE Purchases(monthly, k + 1, monthly_amt,
                        FAdd(total_units, FDivNumpy(Num(monthly_amt, 1), monthly[k])),
                        invested + monthly_amt)

\* The body of get_sip_history on the source's answer; every exception is
\* caught by line 69.
SipHistory(answer, monthly_amt, years, at) ==
    IF answer.kind = "raises" THEN None
    ELSE IF answer.kind = "nothing" THEN None
    ELSE IF answer.data = << >> THEN None
    ELSE IF \E k \in 1..Len(answer.data) : ~Parses(answer.data[k].nav) THEN None
    ELSE
      LET nav_df == SelectSeq(ParsedFrame(answer.data),
                              LAMBDA o : InWindow(o, at, years))
          monthly_data == MonthlyFirst(nav_df, 1, {})
          bought == Purchases(monthly_data, 1, monthly_amt, Num(0, 1), 0)
      IN  IF bought.raised THEN None
          ELSE IF nav_df = << >> THEN None
          ELSE
            LET latest_nav == nav_df[Len(nav_df)].nav
                current_value == FMul(bought.total_units, latest_nav)
                invested == Num(bought.invested, 1)
            IN  [kind |-> "tuple",
                 invested |-> invested,
                 current_value |-> current_value,
                 gain |-> FSub(current_value, invested),
                 abs_ret |-> FMul(FSub(FDivNumpy(current_value, invested),
                                       Num(1, 1)), Num(100, 1))]

(***************************************************************************)
(* Tab 2: "Analyze Returns" (lines 239-266).                               *)
(***************************************************************************)
\* What the user can choose in tab 2.
BtFundNames == {"HDFC Liquid Fund"}
BtAmounts == {5000, 1000}
BtYears == {1, 3}

NowChoices == { [date |-> Date(3, 11, 2026), midnight |-> FALSE],
                [date |-> Date(3, 11, 2026), midnight |-> TRUE] }

\* df[df['Name'] == selected_fund_name]['Code'].values[0]
CodeOfName(df, name) ==
    df[CHOOSE k \in 1..Len(df) :
          df[k].Name = name /\ \A m \in 1..(k - 1) : df[m].Name # name].Code

\* get_sip_history behind st.cache_data: the memo answers a repeated call
get_sip_history(code, monthly_amt, years) ==
    IF <<code, monthly_amt, years>> \in DOMAIN sip_cache
    THEN sip_cache[<<code, monthly_amt, years>>]
    ELSE SipHistory(nav_source[code], monthly_amt, years, now)

\* `if result:` None is falsy, a 4-tuple is truthy
Truthy(result) == result.kind = "tuple"

Analyze ==
    /\ \E selected_fund_name \in BtFundNames, sip_amt \in BtAmounts,
          years_ago \in BtYears :
          LET fund_code == CodeOfName(master_df, selected_fund_name)
              result == get_sip_history(fund_code, sip_amt, years_ago)
              key == <<fund_code, sip_amt, years_ago>>
          IN  /\ bt_args' = key
              /\ bt_result' = result
              /\ sip_cache' = [a \in DOMAIN sip_cache \cup {key} |->
                                 IF a = key THEN result ELSE sip_cache[a]]
              /\ bt_shown' = IF Truthy(result) THEN "metrics" ELSE "Data unavailable."
    /\ UNCHANGED <<nav_source, now, planVars, svVars>>

BacktestInit ==
    /\ master_df = get_cleaned_data(RawPool)
    /\ goals = << >>
    /\ widgets = [k \in 1..MaxGoals |-> NoWidget]
    /\ clicked = 0 /\ pc = "idle" /\ i = 1 /\ used_funds = << >>
    /\ total_sip = 0 /\ pdf_data = << >> /\ plan = << >> /\ error = "none"
    /\ \E answer \in Answers :
          nav_source = [c \in {master_df[k].Code : k \in 1..Len(master_df)} |->
                           IF c = CodeOfName(master_df, "HDFC Liquid Fund")
                           THEN answer ELSE [kind |-> "nothing"]]
    /\ now \in NowChoices
    /\ sip_cache = << >>
    /\ bt_args = << >> /\ bt_result = None /\ bt_shown = ""
    /\ sv_in = << >> /\ sv_out = [done |-> FALSE]

BacktestNext == Analyze

BacktestSpec == BacktestInit /\ [][BacktestNext]_vars

(***************************************************************************)
(* The SIP formula on its own inputs.                                      *)
(***************************************************************************)
\* Assumed annual returns handed to the formula: the three of lines 114-120
\* and a zero return.
RetInputs == {0, 7, 10, 13}
MinYrs == 1
MaxYrs == 30

Solve ==
    /\ ~sv_out.done
    /\ sv_out' = [done |-> TRUE, sip |-> Sip(sv_in.amt, sv_in.ret, sv_in.yrs * 12)]
    /\ UNCHANGED <<sv_in, planVars, btVars>>

SolverInit ==
    /\ master_df = << >>
    /\ goals = << >>
    /\ widgets = [k \in 1..MaxGoals |-> NoWidget]
    /\ clicked = 0 /\ pc = "idle" /\ i = 1 /\ used_funds = << >>
    /\ total_sip = 0 /\ pdf_data = << >> /\ plan = << >> /\ error = "none"
    /\ nav_source = << >> /\ now = << >> /\ sip_cache = << >>
    /\ bt_args = << >> /\ bt_result = << >> /\ bt_shown = ""
    /\ sv_in \in [amt : AmtChoices, ret : RetInputs, yrs : MinYrs..MaxYrs]
    /\ sv_out = [done |-> FALSE]

SolverNext == Solve

SolverSpec == SolverInit /\ [][SolverNext]_vars

(***************************************************************************)
(* Properties of the backtest and of the formula.                          *)
(***************************************************************************)
\* C6: the backtest returns None, or a tuple none of whose numbers is NaN and
\* whose total invested is not zero.
C6_UnavailableNotNaN ==
    bt_args # << >> =>
        \/ bt_result = None
        \/ /\ ~IsZero(bt_result.invested)
           /\ bt_result.current_value.k = "num"
           /\ bt_result.gain.k = "num"
           /\ bt_result.abs_ret.k = "num"

\* The history of the analysed fund as C7 reads it.
BtData == nav_source[bt_args[1]].data

\* the observations in the window
BtWindow == {k \in 1..Len(BtData) :
                InWindow([t |-> Ordinal(BtData[k].date)], now, bt_args[3])}

BtPrice(k) == ToNumeric(BtData[k].nav)

\* C7 is about price series: every observation in the window has a price > 0
BtPriced ==
    /\ bt_args # << >>
    /\ nav_source[bt_args[1]].kind = "data"
    /\ \A k \in 1..Len(BtData) : Parses(BtData[k].nav)
    /\ BtWindow # {}
    /\ \A k \in BtWindow : BtPrice(k).k = "num" /\ BtPrice(k).n > 0

BtMonths == {MonthBin(BtData[k].date) : k \in BtWindow}

\* the first observation of a month that has one
BtFirstOf(mo) ==
    CHOOSE k \in BtWindow :
        /\ MonthBin(BtData[k].date) = mo
        /\ \A m \in BtWindow :
              MonthBin(BtData[m].date) = mo
                  => Ordinal(BtData[k].date) <= Ordinal(BtData[m].date)

BtLatest ==
    CHOOSE k \in BtWindow :
        \A m \in BtWindow : Ordinal(BtData[m].date) <= Ordinal(BtData[k].date)

RECURSIVE BtUnits(_)
BtUnits(months) ==
    IF months = {} THEN Num(0, 1)
    ELSE LET mo == CHOOSE x \in months : TRUE
         IN  FAdd(FDivNumpy(Num(bt_args[2], 1), BtPrice(BtFirstOf(mo))),
                  BtUnits(months \ {mo}))

\* C7: on a priced window the backtest buys contribution / price units at the
\* first observation of each month that has one, values them at the latest
\* observation of the window, and reports current - invested; the flat year at
\* 100 with 5000 a month gives 60000, 60000, 0 and 0%.
C7_BacktestArithmetic ==
    BtPriced =>
        /\ bt_result.kind = "tuple"
        /\ bt_shown = "metrics"
        /\ bt_result.invested = Num(bt_args[2] * Cardinality(BtMonths), 1)
        /\ bt_result.current_value = FMul(BtUnits(BtMonths), BtPrice(BtLatest))
        /\ bt_result.gain = FSub(bt_result.current_value, bt_result.invested)
        /\ (BtData = Flat12 /\ bt_args[2] = 5000 /\ bt_args[3] = 1) =>
              /\ BtUnits(BtMonths) = Num(600, 1)
              /\ bt_result.invested = Num(60000, 1)
              /\ bt_result.current_value = Num(60000, 1)
              /\ bt_result.gain = Num(0, 1)
              /\ bt_result.abs_ret = Num(0, 1)

\* C7 witness: over 3 years the window holds 03-11-2025 and two observations
\* of September 2026, the months between hold none; 5000 bought units at the
\* first observation of each of the two months (10000 invested), and they are
\* valued at the latest observation, whose price is not the one September's
\* purchase was made at.
C7_Witness ==
    /\ BtPriced
    /\ bt_args[2] = 5000
    /\ Cardinality(BtWindow) = 3
    /\ Cardinality(BtMonths) = 2
    /\ BtPrice(BtLatest) # BtPrice(BtFirstOf(MonthBin(BtData[BtLatest].date)))
    /\ bt_result.kind = "tuple"
    /\ bt_result.invested = Num(10000, 1)
    /\ bt_result.current_value = FMul(BtUnits(BtMonths), BtPrice(BtLatest))
    /\ bt_result.current_value # bt_result.invested

DenominatorNonZero ==
    (sv_out.done /\ sv_in.ret \in {7, 10, 13}) =>
        /\ ~sv_out.sip.raised
        /\ Growth(sv_in.ret, sv_in.yrs * 12) # Scale

====
